---- MODULE Spec2Model ----
(***************************************************************************)
(* Model of android::scheduler::LayerInfoV2                                *)
(* (services/surfaceflinger/Scheduler/LayerInfoV2.cpp).                    *)
(*                                                                         *)
(* Time is measured in ticks; TicksPerSecond ticks make one second (the    *)
(* source measures nanoseconds, 1e9 to the second).  Refresh rates are     *)
(* exact rationals [num, den] in Hz: the rounding of the source's 32-bit   *)
(* floats is not modelled.  The constants of LayerInfoV2.h that a build    *)
(* fixes are the fields of config, which no operation changes.             *)
(***************************************************************************)
EXTENDS Integers, Sequences, FiniteSets, TLC

\* ---------------------------------------------------------------- bounds
\* Upper bound on the number of setLastPresentTime calls in one behaviour.
MaxEvents == 6
\* The count of getRefreshRate calls in a row stops at MaxStreak.
MaxStreak == 2

\* ------------------------------------------------------------- constants
\* The build's constants: the scale of time and the size of the history.
VARIABLE config

\* A build with four ticks to the second, one tick being the highest refresh
\* rate's period (250ms), and a history of five frame times.
DefaultConfig == [ticksPerSecond |-> 4, historySize |-> 5]
\* A build with a history of three frame times and sixty ticks to the second,
\* one tick being the period of 60Hz (16,666,667ns).
ScenarioConfig == [ticksPerSecond |-> 60, historySize |-> 3]

\* 1e9f of calculateRefreshRateIfPossible: time units per second.
TicksPerSecond == config.ticksPerSecond
\* static constexpr float MARGIN = 1.0f (Hz).
MARGIN == 1
\* LayerInfoV2.h: number of frame times kept.
HISTORY_SIZE == config.historySize
\* LayerInfoV2.h: one second.
HISTORY_TIME == TicksPerSecond
\* LayerInfoV2.h: size of the window isFrequent looks at.
FREQUENT_LAYER_WINDOW_SIZE == 3
\* LayerInfoV2.h: 250ms.
MAX_FREQUENT_LAYER_PERIOD_NS == TicksPerSecond \div 4
\* LayerInfoV2.h: 1200ms, used by getActiveLayerThreshold.
MAX_ACTIVE_LAYER_PERIOD_NS == (TicksPerSecond * 6) \div 5
\* Constructor argument highRefreshRatePeriod.
mHighRefreshRatePeriod == 1

\* ---------------------------------------------------------------- inputs
\* <<lastPresentTime, now>> arguments of setLastPresentTime: a negative
\* present time, present times at now, before now and after now.
Events == {<<-1, 1>>, <<1, 1>>, <<1, 11>>, <<11, 1>>, <<11, 11>>}
\* now arguments of the queries: 2 puts a sample queued at 1 exactly on the
\* threshold of isFrequent, 11 puts it before the threshold.
QueryNows == {2, 11}
\* LayerHistory::LayerVoteType values an instance is constructed with.
VoteTypes == {"Heuristic", "Min"}

\* ------------------------------------------------------------- rationals
RECURSIVE GCD(_, _)
GCD(a, b) == IF b = 0 THEN a ELSE GCD(b, a % b)

Abs(x) == IF x < 0 THEN -x ELSE x
Max(a, b) == IF a >= b THEN a ELSE b
Min(a, b) == IF a <= b THEN a ELSE b

\* The rational n/d (d > 0, n >= 0) in lowest terms.
Rat(n, d) == LET g == GCD(n, d) IN [num |-> n \div g, den |-> d \div g]
Zero == [num |-> 0, den |-> 1]

\* |a - b| > m for rationals a, b and an integer m.
DiffExceeds(a, b, m) ==
    Abs(a.num * b.den - b.num * a.den) > m * a.den * b.den

\* ----------------------------------------------------------------- state
VARIABLES
    mFrameTimes,              \* std::deque<FrameTimeData>, oldest first
    mLastUpdatedTime,         \* nsecs_t
    mLastReportedRefreshRate, \* float
    mLayerVote,               \* {type, fps}
    aborted,                  \* the process died in undefined behaviour
    recorded,                 \* number of setLastPresentTime calls made
    lastNow,                  \* now of the latest setLastPresentTime call
    nowOrdered,               \* the now arguments so far were non-decreasing
    presentNotAhead,          \* every call so far had lastPresentTime <= now
    streak,                   \* getRefreshRate calls in a row, up to MaxStreak,
                              \* that computed a refresh rate
    lastOp                    \* the latest call, its arguments and its result

vars == <<config, mFrameTimes, mLastUpdatedTime, mLastReportedRefreshRate,
          mLayerVote, aborted, recorded, lastNow, nowOrdered, presentNotAhead,
          streak, lastOp>>

NoVote == [type |-> "None", fps |-> Zero]

\* What lastOp records of a call.
\*   op   : the method called,
\*   lpt  : the lastPresentTime argument (setLastPresentTime only),
\*   now  : the now argument,
\*   ret  : the vote returned by getRefreshRate,
\*   flag : the boolean returned by isRecentlyActive / isFrequent,
\*   est  : what calculateRefreshRateIfPossible did during the call:
\*          "skipped" (not called), "none" (std::nullopt), "value" or "fatal",
\*   cand : refreshRate of line 113 when est = "value".
Op(o, l, n, r, f, e, c) ==
    [op |-> o, lpt |-> l, now |-> n, ret |-> r, flag |-> f, est |-> e, cand |-> c]

\* ------------------------------------------------------- pure functions
\* A variant that stores lastPresentTime as it comes.
FrameTimeDataUnclamped(lastPresentTime, now) ==
    [presetTime |-> lastPresentTime, queueTime |-> Max(lastPresentTime, now)]

\* A variant that takes the earlier of the two times as the queue time.
FrameTimeDataEarlier(lastPresentTime, now) ==
    LET clamped == Max(lastPresentTime, 0)
    IN  [presetTime |-> clamped, queueTime |-> Min(clamped, now)]

\* The sample setLastPresentTime stores for its arguments.
FrameTimeData(lastPresentTime, now) ==
    LET clamped == Max(lastPresentTime, 0)
    IN  [presetTime |-> clamped, queueTime |-> Max(clamped, now)]

\* A variant that evicts one sample too early.
PushFrameTimeEarly(h, frameTime) ==
    LET pushed == Append(h, frameTime)
    IN  IF Len(pushed) >= HISTORY_SIZE THEN Tail(pushed) ELSE pushed

\* push_back, then pop_front when the deque has outgrown HISTORY_SIZE.
PushFrameTime(h, frameTime) ==
    LET pushed == Append(h, frameTime)
    IN  IF Len(pushed) > HISTORY_SIZE THEN Tail(pushed) ELSE pushed

\* Spec-modelled (LayerInfoV2.h): the active-layer threshold for now.
getActiveLayerThreshold(now) == now - MAX_ACTIVE_LAYER_PERIOD_NS

isRecentlyActive(h, now) ==
    IF Len(h) = 0
    THEN FALSE
    ELSE h[Len(h)].queueTime >= getActiveLayerThreshold(now)

\* A variant whose window starts one sample late.
isFrequentShortWindow(h, now) ==
    IF Len(h) < FREQUENT_LAYER_WINDOW_SIZE
    THEN TRUE
    ELSE LET it == h[Len(h) - FREQUENT_LAYER_WINDOW_SIZE + 2]
             threshold == now - MAX_FREQUENT_LAYER_PERIOD_NS
         IN  it.queueTime >= threshold

\* A variant that takes a sample exactly on the threshold for too old.
isFrequentStrict(h, now) ==
    IF Len(h) < FREQUENT_LAYER_WINDOW_SIZE
    THEN TRUE
    ELSE LET it == h[Len(h) - FREQUENT_LAYER_WINDOW_SIZE + 1]
             threshold == now - MAX_FREQUENT_LAYER_PERIOD_NS
         IN  it.queueTime > threshold

isFrequent(h, now) ==
    IF Len(h) < FREQUENT_LAYER_WINDOW_SIZE
    THEN TRUE
    ELSE LET it == h[Len(h) - FREQUENT_LAYER_WINDOW_SIZE + 1]
             threshold == now - MAX_FREQUENT_LAYER_PERIOD_NS
         IN  it.queueTime >= threshold

\* A variant that takes a deque of exactly HISTORY_SIZE samples for not full.
hasEnoughDataForHeuristicOffByOne(h) ==
    ~ (/\ Len(h) <= HISTORY_SIZE
       /\ h[Len(h)].queueTime - h[1].queueTime < HISTORY_TIME)

\* Defined for a non-empty deque only: back() and front() of an empty deque
\* are undefined behaviour, see CalculateOutcomes.
hasEnoughDataForHeuristic(h) ==
    ~ (/\ Len(h) < HISTORY_SIZE
       /\ h[Len(h)].queueTime - h[1].queueTime < HISTORY_TIME)

\* max((it + 1)->presetTime - it->presetTime, mHighRefreshRatePeriod)
\* for it = begin() + (i - 1).
PresentTimeDelta(h, i) ==
    Max(h[i + 1].presetTime - h[i].presetTime, mHighRefreshRatePeriod)

\* A variant that looks at the first presetTime of each pair only.
NoPresentTimeFirstOnly(h) ==
    \E i \in 1..(Len(h) - 1) : h[i].presetTime = 0

\* The first loop returns std::nullopt when a pair has a presetTime of 0.
NoPresentTime(h) ==
    \E i \in 1..(Len(h) - 1) : h[i].presetTime = 0 \/ h[i + 1].presetTime = 0

\* totalPresentTimeDeltas after the first k iterations of the first loop.
RECURSIVE TotalPresentTimeDeltas(_, _)
TotalPresentTimeDeltas(h, k) ==
    IF k = 0 THEN 0
    ELSE TotalPresentTimeDeltas(h, k - 1) + PresentTimeDelta(h, k)

\* A variant that averages the deltas over the number of samples.
NotEvenlyDistributedPerSample(h) ==
    LET n == Len(h) - 1
        total == TotalPresentTimeDeltas(h, n)
    IN  \E i \in 1..n : Abs(PresentTimeDelta(h, i) * (n + 1) - total) > 2 * total

\* A variant that rejects a delta further than one average from the average.
NotEvenlyDistributedTight(h) ==
    LET n == Len(h) - 1
        total == TotalPresentTimeDeltas(h, n)
    IN  \E i \in 1..n : Abs(PresentTimeDelta(h, i) * n - total) > total

\* The second loop: some delta d has |d - averageFrameTime| > 2 * averageFrameTime,
\* where averageFrameTime = total / (size - 1); both sides are multiplied by
\* size - 1.
NotEvenlyDistributed(h) ==
    LET n == Len(h) - 1
        total == TotalPresentTimeDeltas(h, n)
    IN  \E i \in 1..n : Abs(PresentTimeDelta(h, i) * n - total) > 2 * total

\* A variant that averages the deltas over the number of samples.
RefreshRatePerSample(h) ==
    Rat(TicksPerSecond * Len(h), TotalPresentTimeDeltas(h, Len(h) - 1))

\* refreshRate = 1e9f / averageFrameTime.
RefreshRate(h) ==
    Rat(TicksPerSecond * (Len(h) - 1), TotalPresentTimeDeltas(h, Len(h) - 1))

\* A variant that keeps the stored rate when the new one is far from it.
HysteresisInverted(refreshRate, last) ==
    IF DiffExceeds(refreshRate, last, MARGIN) THEN last ELSE refreshRate

\* A variant that also takes a rate exactly MARGIN away.
HysteresisInclusive(refreshRate, last) ==
    IF DiffExceeds(refreshRate, last, MARGIN)
       \/ Abs(refreshRate.num * last.den - last.num * refreshRate.den)
              = MARGIN * refreshRate.den * last.den
    THEN refreshRate
    ELSE last

\* Lines 114-116: the new value of mLastReportedRefreshRate.
Hysteresis(refreshRate, last) ==
    IF DiffExceeds(refreshRate, last, MARGIN) THEN refreshRate ELSE last

Outcome(e, c, r) == [est |-> e, cand |-> c, rate |-> r]

\* A variant that forgets the reported rate when the estimation fails.
InconclusiveReset(last) == Outcome("none", Zero, Zero)

\* return std::nullopt: mLastReportedRefreshRate keeps its value.
Inconclusive(last) == Outcome("none", Zero, last)

\* Rates a computation over the memory around an empty deque may come to.
GarbageRates == {Rat(2 * TicksPerSecond, mHighRefreshRatePeriod)}

\* calculateRefreshRateIfPossible on history h with mLastReportedRefreshRate
\* = last: the set of its possible outcomes [est, cand, rate], rate being the
\* new mLastReportedRefreshRate.  On an empty deque hasEnoughDataForHeuristic
\* reads back() and front(), which is undefined: the process may die, the
\* comparison may come out either way, and when it lets the computation go
\* on, the loops read memory that holds no sample.
CalculateOutcomes(h, last) ==
    IF Len(h) = 0
    THEN {Outcome("fatal", Zero, last), Inconclusive(last)}
         \cup {Outcome("value", g, Hysteresis(g, last)) : g \in GarbageRates}
    ELSE IF ~hasEnoughDataForHeuristic(h) THEN {Inconclusive(last)}
    ELSE IF NoPresentTime(h) THEN {Inconclusive(last)}
    ELSE IF NotEvenlyDistributed(h) THEN {Inconclusive(last)}
    ELSE {Outcome("value", RefreshRate(h), Hysteresis(RefreshRate(h), last))}

\* ------------------------------------------------------------------ Init
\* LayerInfoV2(highRefreshRatePeriod, defaultVote).
Init ==
    /\ config = DefaultConfig
    /\ mFrameTimes = <<>>
    /\ mLastUpdatedTime = 0
    /\ mLastReportedRefreshRate = Zero
    /\ \E defaultVote \in VoteTypes : mLayerVote = [type |-> defaultVote, fps |-> Zero]
    /\ aborted = FALSE
    /\ recorded = 0
    /\ lastNow = 0
    /\ nowOrdered = TRUE
    /\ presentNotAhead = TRUE
    /\ streak = 0
    /\ lastOp = Op("new", 0, 0, NoVote, FALSE, "skipped", Zero)

\* --------------------------------------------------------------- actions
setLastPresentTime(lastPresentTime, now) ==
    /\ ~aborted
    /\ recorded < MaxEvents
    /\ LET frameTime == FrameTimeData(lastPresentTime, now)
       IN  /\ mLastUpdatedTime' = frameTime.queueTime
           /\ mFrameTimes' = PushFrameTime(mFrameTimes, frameTime)
    /\ recorded' = recorded + 1
    /\ lastNow' = now
    /\ nowOrdered' = (nowOrdered /\ (recorded = 0 \/ lastNow <= now))
    /\ presentNotAhead' = (presentNotAhead /\ lastPresentTime <= now)
    /\ lastOp' = Op("setLastPresentTime", lastPresentTime, now, NoVote, FALSE,
                    "skipped", Zero)
    /\ streak' = 0
    /\ UNCHANGED <<config, mLastReportedRefreshRate, mLayerVote, aborted>>

Ghosts == <<recorded, lastNow, nowOrdered, presentNotAhead>>

IsRecentlyActive(now) ==
    /\ ~aborted
    /\ lastOp' = Op("isRecentlyActive", 0, now, NoVote,
                    isRecentlyActive(mFrameTimes, now), "skipped", Zero)
    /\ streak' = 0
    /\ UNCHANGED <<config, mFrameTimes, mLastUpdatedTime, mLastReportedRefreshRate,
                   mLayerVote, aborted, Ghosts>>

IsFrequent(now) ==
    /\ ~aborted
    /\ lastOp' = Op("isFrequent", 0, now, NoVote,
                    isFrequent(mFrameTimes, now), "skipped", Zero)
    /\ streak' = 0
    /\ UNCHANGED <<config, mFrameTimes, mLastUpdatedTime, mLastReportedRefreshRate,
                   mLayerVote, aborted, Ghosts>>

\* Spec-modelled (LayerInfoV2.h): setLayerVote stores an explicit vote, or
\* hands the layer back to the heuristic.
LayerVotes ==
    {[type |-> "Heuristic", fps |-> Zero],
     [type |-> "ExplicitDefault", fps |-> [num |-> 2, den |-> 1]]}

setLayerVote(vote) ==
    /\ ~aborted
    /\ mLayerVote' = vote
    /\ lastOp' = Op("setLayerVote", 0, 0, NoVote, FALSE, "skipped", Zero)
    /\ streak' = 0
    /\ UNCHANGED <<config, mFrameTimes, mLastUpdatedTime, mLastReportedRefreshRate,
                   aborted, Ghosts>>

\* A variant that lets only a Min or Max vote override the heuristic.
IsExplicitVoteMinMax(vote) == vote.type \in {"Min", "Max"}

\* Line 123: the stored vote is returned as it is.
IsExplicitVote(vote) == vote.type # "Heuristic"

\* The vote getRefreshRate returns when calculateRefreshRateIfPossible ends
\* with outcome out (lines 131-136).
HeuristicVote(out) ==
    IF out.est = "value"
    THEN [type |-> "Heuristic", fps |-> out.rate]
    ELSE [type |-> "Max", fps |-> Zero]

Result(v, e, c, r) == [ret |-> v, est |-> e, cand |-> c, rate |-> r]

\* getRefreshRate(now) on history h, mLastReportedRefreshRate = last and
\* mLayerVote = vote: the set of its possible results [ret, est, cand, rate].
VoteOutcomes(h, last, vote, now) ==
    IF IsExplicitVote(vote)
    THEN {Result(vote, "skipped", Zero, last)}
    ELSE IF ~isFrequent(h, now)
    THEN {Result([type |-> "Min", fps |-> Zero], "skipped", Zero, last)}
    ELSE {Result(IF out.est = "fatal" THEN NoVote ELSE HeuristicVote(out),
                 out.est, out.cand, out.rate) :
              out \in CalculateOutcomes(h, last)}

\* The new value of streak after a getRefreshRate call that ended with est.
NextStreak(est) == IF est = "value" THEN Min(streak + 1, MaxStreak) ELSE 0

\* A variant that forgets the history once it has voted.
getRefreshRateClearing(now) ==
    /\ ~aborted
    /\ \E res \in VoteOutcomes(mFrameTimes, mLastReportedRefreshRate,
                               mLayerVote, now) :
          /\ mLastReportedRefreshRate' = res.rate
          /\ aborted' = (res.est = "fatal")
          /\ streak' = NextStreak(res.est)
          /\ lastOp' = Op("getRefreshRate", 0, now, res.ret, FALSE,
                          res.est, res.cand)
    /\ mFrameTimes' = <<>>
    /\ UNCHANGED <<config, mLastUpdatedTime, mLayerVote, Ghosts>>

\* A variant that returns the rate stored before the call.
getRefreshRateStale(now) ==
    /\ ~aborted
    /\ \E res \in VoteOutcomes(mFrameTimes, mLastReportedRefreshRate,
                               mLayerVote, now) :
          /\ mLastReportedRefreshRate' = res.rate
          /\ aborted' = (res.est = "fatal")
          /\ streak' = NextStreak(res.est)
          /\ lastOp' = Op("getRefreshRate", 0, now,
                          IF res.est = "value"
                          THEN [type |-> "Heuristic",
                                fps |-> mLastReportedRefreshRate]
                          ELSE res.ret,
                          FALSE, res.est, res.cand)
    /\ UNCHANGED <<config, mFrameTimes, mLastUpdatedTime, mLayerVote, Ghosts>>

getRefreshRate(now) ==
    /\ ~aborted
    /\ \E res \in VoteOutcomes(mFrameTimes, mLastReportedRefreshRate,
                               mLayerVote, now) :
          /\ mLastReportedRefreshRate' = res.rate
          /\ aborted' = (res.est = "fatal")
          /\ streak' = NextStreak(res.est)
          /\ lastOp' = Op("getRefreshRate", 0, now, res.ret, FALSE,
                          res.est, res.cand)
    /\ UNCHANGED <<config, mFrameTimes, mLastUpdatedTime, mLayerVote, Ghosts>>

Next ==
    \/ \E event \in Events : setLastPresentTime(event[1], event[2])
    \/ \E now \in QueryNows : IsRecentlyActive(now)
    \/ \E now \in QueryNows : IsFrequent(now)
    \/ \E now \in QueryNows : getRefreshRate(now)
    \/ \E vote \in LayerVotes : setLayerVote(vote)

Spec == Init /\ [][Next]_vars

\* ------------------------------------- a build with a history of three
\* Times in ticks of 16,666,667ns: lastPresentTime and now of the calls.
ScenarioTimes == {0, 1, 2, 3, 5}

\* LayerInfoV2(16666667, Heuristic) in a build with HISTORY_SIZE = 3.
InitScenario ==
    /\ config = ScenarioConfig
    /\ mFrameTimes = <<>>
    /\ mLastUpdatedTime = 0
    /\ mLastReportedRefreshRate = Zero
    /\ mLayerVote = [type |-> "Heuristic", fps |-> Zero]
    /\ aborted = FALSE
    /\ recorded = 0
    /\ lastNow = 0
    /\ nowOrdered = TRUE
    /\ presentNotAhead = TRUE
    /\ streak = 0
    /\ lastOp = Op("new", 0, 0, NoVote, FALSE, "skipped", Zero)

\* Frames presented at the time they are queued, and votes asked at those
\* times.
NextScenario ==
    \/ \E t \in ScenarioTimes : setLastPresentTime(t, t)
    \/ \E now \in ScenarioTimes : IsFrequent(now)
    \/ \E now \in ScenarioTimes : getRefreshRate(now)

SpecScenario == InitScenario /\ [][NextScenario]_vars

\* ---------------------------------------------------------------- claims
IsCall(name) == lastOp.op = name

\* The steps that are calls of setLastPresentTime / getRefreshRate.
RecordStep == recorded' = recorded + 1
VoteStep == lastOp'.op = "getRefreshRate"

\* C1: after N calls of setLastPresentTime on a fresh instance mFrameTimes
\* holds min(N, HISTORY_SIZE) samples, and each call appends its sample at the
\* newest end and, when the deque was full, drops the one at the oldest end,
\* so that the deque is the most recent recorded samples in insertion order.
C1_BoundedHistory ==
    /\ [](Len(mFrameTimes) = Min(recorded, HISTORY_SIZE))
    /\ [][RecordStep =>
            LET sample == FrameTimeData(lastOp'.lpt, lastOp'.now)
                n == Len(mFrameTimes)
            IN  /\ Len(mFrameTimes') = Min(n + 1, HISTORY_SIZE)
                /\ mFrameTimes'[Len(mFrameTimes')] = sample
                /\ \A i \in 1..(Len(mFrameTimes') - 1) :
                       mFrameTimes'[i] =
                           mFrameTimes[IF n < HISTORY_SIZE THEN i ELSE i + 1]]_vars

\* A full deque has just lost its oldest sample to a new one.
C1_Witness ==
    /\ IsCall("setLastPresentTime")
    /\ recorded > HISTORY_SIZE
    /\ Len(mFrameTimes) = HISTORY_SIZE
    /\ mFrameTimes[1] # mFrameTimes[HISTORY_SIZE]

QueueTimesOrdered ==
    \A i \in 1..(Len(mFrameTimes) - 1) :
        mFrameTimes[i].queueTime <= mFrameTimes[i + 1].queueTime

\* C2 as stated: whenever the now arguments so far were non-decreasing, the
\* queueTime values in mFrameTimes are non-decreasing from oldest to newest,
\* whatever the lastPresentTime arguments were.
C2_Original == nowOrdered => QueueTimesOrdered

\* C2, amended: whenever the now arguments so far were non-decreasing and no
\* call had a lastPresentTime later than its now, the queueTime values in
\* mFrameTimes are non-decreasing from oldest to newest.
C2_MonotonicQueueTime == (nowOrdered /\ presentNotAhead) => QueueTimesOrdered

\* The clock has advanced between recorded samples, and the deque has wrapped.
C2_Witness ==
    /\ IsCall("setLastPresentTime")
    /\ nowOrdered /\ presentNotAhead
    /\ recorded > HISTORY_SIZE
    /\ mFrameTimes[1].queueTime < mFrameTimes[Len(mFrameTimes)].queueTime
    /\ \E i \in 1..Len(mFrameTimes) : mFrameTimes[i].presetTime = 0

\* C3: a getRefreshRate call on an instance whose stored vote is not Heuristic
\* returns the stored vote, does not run calculateRefreshRateIfPossible, and
\* leaves mLastReportedRefreshRate and mFrameTimes as they were.
C3_ExplicitOverride ==
    [][(VoteStep /\ mLayerVote.type # "Heuristic") =>
           /\ lastOp'.ret = mLayerVote
           /\ lastOp'.est = "skipped"
           /\ mLastReportedRefreshRate' = mLastReportedRefreshRate
           /\ mFrameTimes' = mFrameTimes]_vars

\* An explicit vote was returned although the heuristic had reported a rate
\* before and the history would let it report again.
C3_Witness ==
    /\ IsCall("getRefreshRate")
    /\ mLayerVote.type = "ExplicitDefault"
    /\ lastOp.ret = mLayerVote
    /\ Len(mFrameTimes) = HISTORY_SIZE
    /\ mLastReportedRefreshRate # Zero
    /\ \E res \in VoteOutcomes(mFrameTimes, mLastReportedRefreshRate,
                               [type |-> "Heuristic", fps |-> Zero], lastOp.now) :
           res.est = "value"

\* The window isFrequent looks at starts with a sample queued before
\* now - MAX_FREQUENT_LAYER_PERIOD_NS.
Infrequent(h, now) ==
    /\ Len(h) >= FREQUENT_LAYER_WINDOW_SIZE
    /\ h[Len(h) - FREQUENT_LAYER_WINDOW_SIZE + 1].queueTime
           < now - MAX_FREQUENT_LAYER_PERIOD_NS

\* C4: a getRefreshRate call on a Heuristic instance that isFrequent(now)
\* either returns {Heuristic, v}, v being the value
\* calculateRefreshRateIfPossible yielded (the new mLastReportedRefreshRate),
\* or returns {Max, 0}, calculateRefreshRateIfPossible having yielded nothing;
\* the call has no other result.
C4_FrequentVote ==
    [][(/\ VoteStep
        /\ mLayerVote.type = "Heuristic"
        /\ ~Infrequent(mFrameTimes, lastOp'.now)) =>
           \/ /\ lastOp'.est = "value"
              /\ lastOp'.ret = [type |-> "Heuristic",
                                fps |-> mLastReportedRefreshRate']
           \/ /\ lastOp'.est = "none"
              /\ lastOp'.ret = [type |-> "Max", fps |-> Zero]]_vars

\* C5: a getRefreshRate call on a Heuristic instance whose history holds at
\* least FREQUENT_LAYER_WINDOW_SIZE samples, the earliest of the window queued
\* before now - MAX_FREQUENT_LAYER_PERIOD_NS, returns {Min, 0} and does not run
\* calculateRefreshRateIfPossible: mLastReportedRefreshRate keeps its value.
C5_InfrequentMin ==
    [][(/\ VoteStep
        /\ mLayerVote.type = "Heuristic"
        /\ Infrequent(mFrameTimes, lastOp'.now)) =>
           /\ lastOp'.ret = [type |-> "Min", fps |-> Zero]
           /\ lastOp'.est = "skipped"
           /\ mLastReportedRefreshRate' = mLastReportedRefreshRate]_vars

\* {Min, 0} was returned for a full history from which a rate had been
\* reported, and from which one would be reported again at an earlier now.
C5_Witness ==
    /\ IsCall("getRefreshRate")
    /\ lastOp.ret = [type |-> "Min", fps |-> Zero]
    /\ mLayerVote.type = "Heuristic"
    /\ Len(mFrameTimes) = HISTORY_SIZE
    /\ mLastReportedRefreshRate # Zero
    /\ \E now \in QueryNows :
           \E res \in VoteOutcomes(mFrameTimes, mLastReportedRefreshRate,
                                   mLayerVote, now) : res.est = "value"

\* C6: getRefreshRate never ends the process, and on a Heuristic instance with
\* an empty history it returns {Max, 0}.
C6_NeverFatal ==
    /\ ~aborted
    /\ (IsCall("getRefreshRate") /\ mLayerVote.type = "Heuristic"
            /\ Len(mFrameTimes) = 0)
           => lastOp.ret = [type |-> "Max", fps |-> Zero]

\* C7: a getRefreshRate call in which calculateRefreshRateIfPossible computed a
\* refresh rate sets mLastReportedRefreshRate to it when it differs from the
\* stored rate by more than MARGIN, leaves the stored rate alone otherwise,
\* and in both cases returns the stored rate as it is after the call.
C7_Hysteresis ==
    [][(VoteStep /\ lastOp'.est = "value") =>
           /\ mLastReportedRefreshRate' =
                  IF DiffExceeds(lastOp'.cand, mLastReportedRefreshRate, MARGIN)
                  THEN lastOp'.cand
                  ELSE mLastReportedRefreshRate
           /\ lastOp'.ret = [type |-> "Heuristic",
                             fps |-> mLastReportedRefreshRate']]_vars

\* A rate was computed from recorded samples that is exactly MARGIN away from
\* the stored one, and the stored one was returned.
C7_Witness ==
    /\ IsCall("getRefreshRate")
    /\ lastOp.est = "value"
    /\ Len(mFrameTimes) > 0
    /\ Abs(lastOp.cand.num * mLastReportedRefreshRate.den
             - mLastReportedRefreshRate.num * lastOp.cand.den)
           = MARGIN * lastOp.cand.den * mLastReportedRefreshRate.den
    /\ lastOp.ret = [type |-> "Heuristic", fps |-> mLastReportedRefreshRate]

\* C8: a getRefreshRate call in which calculateRefreshRateIfPossible returned
\* std::nullopt leaves mLastReportedRefreshRate as it was.
C8_FailedEstimateKeepsRate ==
    [][(VoteStep /\ lastOp'.est = "none") =>
           mLastReportedRefreshRate' = mLastReportedRefreshRate]_vars

\* The estimation rejected a full history of unevenly spaced samples after a
\* rate had been reported.
C8_Witness ==
    /\ IsCall("getRefreshRate")
    /\ lastOp.est = "none"
    /\ mLastReportedRefreshRate # Zero
    /\ Len(mFrameTimes) = HISTORY_SIZE
    /\ hasEnoughDataForHeuristic(mFrameTimes)
    /\ ~NoPresentTime(mFrameTimes)
    /\ NotEvenlyDistributed(mFrameTimes)

QueryStep ==
    lastOp'.op \in {"getRefreshRate", "isRecentlyActive", "isFrequent"}

\* C9: getRefreshRate (with isFrequent, hasEnoughDataForHeuristic and
\* calculateRefreshRateIfPossible inside it), isRecentlyActive and isFrequent
\* leave mFrameTimes as it was; of the instance's state a query changes
\* mLastReportedRefreshRate at most, and only getRefreshRate does.
C9_QueriesKeepHistory ==
    [][QueryStep =>
           /\ mFrameTimes' = mFrameTimes
           /\ mLastUpdatedTime' = mLastUpdatedTime
           /\ mLayerVote' = mLayerVote
           /\ (lastOp'.op # "getRefreshRate" =>
                   mLastReportedRefreshRate' = mLastReportedRefreshRate)]_vars

\* getRefreshRate stored and returned a rate computed from a history that had
\* wrapped, and the history is still full.
C9_Witness ==
    /\ IsCall("getRefreshRate")
    /\ lastOp.est = "value"
    /\ Len(mFrameTimes) = HISTORY_SIZE
    /\ recorded > HISTORY_SIZE
    /\ lastOp.cand = mLastReportedRefreshRate

\* C10: of two getRefreshRate calls in a row that both computed a refresh rate,
\* the second one's within MARGIN of the stored rate, the second returns what
\* the first returned and leaves mLastReportedRefreshRate as it was.
C10_HysteresisIdempotent ==
    [][(/\ VoteStep
        /\ streak >= 1
        /\ lastOp'.est = "value"
        /\ ~DiffExceeds(lastOp'.cand, mLastReportedRefreshRate, MARGIN)) =>
           /\ lastOp'.ret = lastOp.ret
           /\ mLastReportedRefreshRate' = mLastReportedRefreshRate]_vars


\* The second of two calls in a row computed a rate that differs from the
\* stored one by less than MARGIN, and returned the stored one.
C10_Witness ==
    /\ IsCall("getRefreshRate")
    /\ streak = MaxStreak
    /\ Len(mFrameTimes) > 0
    /\ lastOp.cand # mLastReportedRefreshRate
    /\ lastOp.ret = [type |-> "Heuristic", fps |-> mLastReportedRefreshRate]

\* The steps in which calculateRefreshRateIfPossible ran on recorded samples.
EstimateStep ==
    /\ VoteStep
    /\ lastOp'.est \in {"none", "value"}
    /\ Len(mFrameTimes) > 0

\* Some sample of h has no presentation time.
HoldsSentinel(h) == \E i \in 1..Len(h) : h[i].presetTime = 0

\* C11: calculateRefreshRateIfPossible returns std::nullopt in every call made
\* while mFrameTimes holds a sample whose presetTime is 0, a negative
\* lastPresentTime having been stored as 0.
C11_SentinelBlocks ==
    [][(EstimateStep /\ HoldsSentinel(mFrameTimes)) =>
           lastOp'.est = "none"]_vars

\* The estimation failed on a full history whose only sample without a
\* presentation time is the newest one, recorded with a negative
\* lastPresentTime, the other samples being evenly spaced.
C11_Witness ==
    /\ IsCall("getRefreshRate")
    /\ lastOp.est = "none"
    /\ Len(mFrameTimes) = HISTORY_SIZE
    /\ mFrameTimes[HISTORY_SIZE].presetTime = 0
    /\ \A i \in 1..(HISTORY_SIZE - 1) :
           mFrameTimes[i].presetTime = mFrameTimes[1].presetTime
    /\ mFrameTimes[1].presetTime > 0

\* The deltas of h, their sum and the deviation test of the burst rejection,
\* written out from d_i = max(presentTime[i+1] - presentTime[i],
\* highRefreshRatePeriod) and averageDelta = sum(d_i) / (count - 1):
\* |d_i - averageDelta| > 2 * averageDelta, times count - 1.
ClampedDelta(h, i) ==
    IF h[i + 1].presetTime - h[i].presetTime > mHighRefreshRatePeriod
    THEN h[i + 1].presetTime - h[i].presetTime
    ELSE mHighRefreshRatePeriod

RECURSIVE SumOfDeltas(_, _)
SumOfDeltas(h, from) ==
    IF from >= Len(h) THEN 0 ELSE ClampedDelta(h, from) + SumOfDeltas(h, from + 1)

Deviates(h, i) ==
    LET count == Len(h)
        d == ClampedDelta(h, i) * (count - 1)
        sum == SumOfDeltas(h, 1)
    IN  d - sum > 2 * sum \/ sum - d > 2 * sum

\* C12: with enough data and no presetTime of 0, calculateRefreshRateIfPossible
\* returns std::nullopt exactly when some clamped delta deviates from the
\* average delta by more than twice the average delta; otherwise it computes
\* a refresh rate.
C12_BurstRejection ==
    [][(/\ EstimateStep
        /\ hasEnoughDataForHeuristic(mFrameTimes)
        /\ ~HoldsSentinel(mFrameTimes)) =>
           ((lastOp'.est = "none") <=>
                (\E i \in 1..(Len(mFrameTimes) - 1) : Deviates(mFrameTimes, i)))]_vars

\* A full history of four close presentation times and a late one was rejected.
C12_Witness ==
    /\ IsCall("getRefreshRate")
    /\ lastOp.est = "none"
    /\ Len(mFrameTimes) = HISTORY_SIZE
    /\ ~HoldsSentinel(mFrameTimes)
    /\ Deviates(mFrameTimes, HISTORY_SIZE - 1)
    /\ ~Deviates(mFrameTimes, 1)

QueueTimeSpan(h) == h[Len(h)].queueTime - h[1].queueTime

\* Fewer than HISTORY_SIZE samples, and none HISTORY_TIME after the oldest.
TooLittleData(h) ==
    /\ Len(h) < HISTORY_SIZE
    /\ (Len(h) = 0 \/ QueueTimeSpan(h) < HISTORY_TIME)

\* C14: hasEnoughDataForHeuristic is false exactly when mFrameTimes holds
\* fewer than HISTORY_SIZE samples and the newest queueTime is less than
\* HISTORY_TIME after the oldest, and calculateRefreshRateIfPossible returns
\* std::nullopt whenever it is false: every call on such a history, the empty
\* one included, ends with std::nullopt.
C14_EnoughData ==
    [][(VoteStep /\ lastOp'.est # "skipped" /\ TooLittleData(mFrameTimes)) =>
           lastOp'.est = "none"]_vars

\* C14 on recorded samples: hasEnoughDataForHeuristic is false exactly when
\* mFrameTimes holds fewer than HISTORY_SIZE samples and the newest queueTime
\* is less than HISTORY_TIME after the oldest; a full deque alone and a span
\* of HISTORY_TIME alone make it true.  calculateRefreshRateIfPossible returns
\* std::nullopt whenever it is false, and goes on to compute a rate when it is
\* true and neither a presetTime of 0 nor an uneven delta stops it.
C14_RecordedEnoughData ==
    /\ [](Len(mFrameTimes) > 0 =>
            /\ (Len(mFrameTimes) >= HISTORY_SIZE =>
                    hasEnoughDataForHeuristic(mFrameTimes))
            /\ (QueueTimeSpan(mFrameTimes) >= HISTORY_TIME =>
                    hasEnoughDataForHeuristic(mFrameTimes))
            /\ (TooLittleData(mFrameTimes) =>
                    ~hasEnoughDataForHeuristic(mFrameTimes)))
    /\ [][EstimateStep =>
            IF TooLittleData(mFrameTimes)
            THEN lastOp'.est = "none"
            ELSE (/\ ~HoldsSentinel(mFrameTimes)
                  /\ \A i \in 1..(Len(mFrameTimes) - 1) :
                         ~Deviates(mFrameTimes, i)) =>
                     lastOp'.est = "value"]_vars

\* A rate was computed from a deque that is not full, its samples spanning
\* HISTORY_TIME or more.
C14_RecordedWitness ==
    /\ IsCall("getRefreshRate")
    /\ lastOp.est = "value"
    /\ Len(mFrameTimes) > 1
    /\ Len(mFrameTimes) < HISTORY_SIZE
    /\ QueueTimeSpan(mFrameTimes) >= HISTORY_TIME

\* C15: every sample in mFrameTimes has presetTime >= 0 and queueTime >=
\* presetTime; the sample a setLastPresentTime(lastPresentTime, now) call
\* stores has the presetTime lastPresentTime, or 0 for a negative one, and the
\* queueTime that is the later of that presetTime and now, so that its
\* queueTime is at least now.
C15_SampleShape ==
    /\ [](\A i \in 1..Len(mFrameTimes) :
              /\ mFrameTimes[i].presetTime >= 0
              /\ mFrameTimes[i].queueTime >= mFrameTimes[i].presetTime)
    /\ [][RecordStep =>
            LET stored == mFrameTimes'[Len(mFrameTimes')]
                lpt == lastOp'.lpt
                now == lastOp'.now
            IN  /\ stored.presetTime = (IF lpt < 0 THEN 0 ELSE lpt)
                /\ stored.queueTime =
                       (IF stored.presetTime > now THEN stored.presetTime ELSE now)
                /\ stored.queueTime >= now]_vars

\* A negative lastPresentTime has just been stored as 0, queued at now, next
\* to a sample whose presentation time was ahead of its now.
C15_Witness ==
    /\ IsCall("setLastPresentTime")
    /\ lastOp.lpt < 0
    /\ mFrameTimes[Len(mFrameTimes)] = [presetTime |-> 0, queueTime |-> lastOp.now]
    /\ Len(mFrameTimes) > 1
    /\ mFrameTimes[1].queueTime > lastOp.now

\* 1e9 / mHighRefreshRatePeriod, the rate of the shortest delta the first loop
\* lets through.
MaxRate == Rat(TicksPerSecond, mHighRefreshRatePeriod)

\* a <= b for two rates.
RateAtMost(a, b) == a.num * b.den <= b.num * a.den

\* C17: in every state 0 <= mLastReportedRefreshRate <= 1e9 /
\* mHighRefreshRatePeriod, and every Heuristic vote getRefreshRate returns
\* carries a rate of at most 1e9 / mHighRefreshRatePeriod.
C17_RateBounded ==
    /\ RateAtMost(Zero, mLastReportedRefreshRate)
    /\ RateAtMost(mLastReportedRefreshRate, MaxRate)
    /\ (IsCall("getRefreshRate") /\ lastOp.ret.type = "Heuristic") =>
           RateAtMost(lastOp.ret.fps, MaxRate)

\* C17 on recorded samples: a rate computed from a non-empty mFrameTimes is at
\* most 1e9 / mHighRefreshRatePeriod.
C17_RecordedRateBounded ==
    [][(EstimateStep /\ lastOp'.est = "value") =>
           RateAtMost(lastOp'.cand, MaxRate)]_vars

\* 1e9 / averageDelta for the deltas of h, averageDelta being their sum over
\* their count.
CandidateRate(h) == Rat(TicksPerSecond * (Len(h) - 1), SumOfDeltas(h, 1))

\* |a - b| <= m for two rates a, b and a whole number m.
Within(a, b, m) ==
    /\ a.num * b.den - b.num * a.den <= m * a.den * b.den
    /\ b.num * a.den - a.num * b.den <= m * a.den * b.den

\* C18: whenever calculateRefreshRateIfPossible returns a value, the value is
\* at most MARGIN away from the rate computed in that call, which for recorded
\* samples is 1e9 / averageDelta of mFrameTimes as it is at the call, whatever
\* mLastReportedRefreshRate the earlier calls have left.
C18_WithinMargin ==
    [][(VoteStep /\ lastOp'.est = "value") =>
           /\ lastOp'.ret.type = "Heuristic"
           /\ Within(lastOp'.ret.fps, lastOp'.cand, MARGIN)
           /\ (Len(mFrameTimes) > 0 =>
                   lastOp'.cand = CandidateRate(mFrameTimes))]_vars

\* A call returned a rate that an earlier history had left, not zero and not
\* the rate of the samples the call was made on.
C18_Witness ==
    /\ IsCall("getRefreshRate")
    /\ lastOp.est = "value"
    /\ Len(mFrameTimes) > 1
    /\ lastOp.cand = CandidateRate(mFrameTimes)
    /\ lastOp.ret.fps # lastOp.cand
    /\ lastOp.ret.fps # Zero

\* C19: while mFrameTimes holds at most 4 samples no clamped delta deviates
\* from the average delta by more than twice the average, so that
\* calculateRefreshRateIfPossible, given enough data and no presetTime of 0,
\* returns std::nullopt only on 5 samples or more.
C19_NoBurstOnShortHistory ==
    /\ [](Len(mFrameTimes) <= 4 =>
            \A i \in 1..(Len(mFrameTimes) - 1) : ~Deviates(mFrameTimes, i))
    /\ [][(/\ EstimateStep
           /\ ~TooLittleData(mFrameTimes)
           /\ ~HoldsSentinel(mFrameTimes)
           /\ lastOp'.est = "none") => Len(mFrameTimes) >= 5]_vars

\* A rate was computed from 4 samples whose last delta is more than twice the
\* average of the three.
C19_Witness ==
    /\ IsCall("getRefreshRate")
    /\ lastOp.est = "value"
    /\ Len(mFrameTimes) = 4
    /\ ClampedDelta(mFrameTimes, 3) * 3 > 2 * SumOfDeltas(mFrameTimes, 1)
    /\ ClampedDelta(mFrameTimes, 1) = mHighRefreshRatePeriod

\* C20: once HISTORY_SIZE calls of setLastPresentTime have been made,
\* hasEnoughDataForHeuristic is true in every later state, however close the
\* queueTimes are, and calculateRefreshRateIfPossible returns std::nullopt only
\* when mFrameTimes holds a presetTime of 0 or a delta that deviates from the
\* average by more than twice the average.
C20_EnoughDataForGood ==
    /\ [](recorded >= HISTORY_SIZE => hasEnoughDataForHeuristic(mFrameTimes))
    /\ [][Len(mFrameTimes) = HISTORY_SIZE =>
            Len(mFrameTimes') = HISTORY_SIZE]_vars
    /\ [][(VoteStep /\ recorded >= HISTORY_SIZE /\ lastOp'.est # "skipped") =>
            \/ lastOp'.est = "value"
            \/ /\ lastOp'.est = "none"
               /\ \/ HoldsSentinel(mFrameTimes)
                  \/ \E i \in 1..(Len(mFrameTimes) - 1) :
                         Deviates(mFrameTimes, i)]_vars

\* After more calls of setLastPresentTime than the deque holds, a rate was
\* computed from samples that were all queued at the same time.
C20_Witness ==
    /\ IsCall("getRefreshRate")
    /\ lastOp.est = "value"
    /\ recorded > HISTORY_SIZE
    /\ Len(mFrameTimes) = HISTORY_SIZE
    /\ QueueTimeSpan(mFrameTimes) = 0

\* The sample of a frame presented and queued at t.
SampleAt(t) == [presetTime |-> t, queueTime |-> t]

\* The presetTimes of h are all later than 0 and each is p after the one
\* before it.
EvenlySpaced(h, p) ==
    /\ \A i \in 1..Len(h) : h[i].presetTime > 0
    /\ \A i \in 1..(Len(h) - 1) : h[i + 1].presetTime - h[i].presetTime = p

\* C16: from enough samples whose presetTimes are all later than 0 and each a
\* period P >= mHighRefreshRatePeriod after the one before,
\* calculateRefreshRateIfPossible computes the rate 1e9 / P.  With
\* HISTORY_SIZE = 3, mHighRefreshRatePeriod = 16,666,667ns (one tick), frames
\* at 0, 1, 2 and 3 ticks with now at the same times and the reported rate
\* still 0: after the third frame the estimation returns std::nullopt; the
\* fourth frame evicts the sample presented at 0 and getRefreshRate then
\* returns {Heuristic, 60Hz}.
C16_SteadyCadence ==
    /\ [][LET p == mFrameTimes[2].presetTime - mFrameTimes[1].presetTime
           IN  (/\ EstimateStep
                /\ ~TooLittleData(mFrameTimes)
                /\ Len(mFrameTimes) >= 2
                /\ p >= mHighRefreshRatePeriod
                /\ EvenlySpaced(mFrameTimes, p)) =>
                   /\ lastOp'.est = "value"
                   /\ lastOp'.cand = Rat(TicksPerSecond, p)]_vars
    /\ [][(/\ EstimateStep
           /\ mFrameTimes = <<SampleAt(0), SampleAt(1), SampleAt(2)>>) =>
            lastOp'.est = "none"]_vars
    /\ [][(/\ RecordStep
           /\ mFrameTimes = <<SampleAt(0), SampleAt(1), SampleAt(2)>>
           /\ lastOp'.lpt = 3 /\ lastOp'.now = 3) =>
            mFrameTimes' = <<SampleAt(1), SampleAt(2), SampleAt(3)>>]_vars
    /\ [][(/\ VoteStep
           /\ lastOp'.now = 3
           /\ mLastReportedRefreshRate = Zero
           /\ mFrameTimes = <<SampleAt(1), SampleAt(2), SampleAt(3)>>) =>
            /\ lastOp'.est = "value"
            /\ lastOp'.ret = [type |-> "Heuristic", fps |-> Rat(60, 1)]]_vars

\* After four frames, the last three at 1, 2 and 3 ticks, getRefreshRate at 3
\* ticks has returned {Heuristic, 60Hz}.
C16_Witness ==
    /\ config = ScenarioConfig
    /\ IsCall("getRefreshRate")
    /\ lastOp.now = 3
    /\ recorded = 4
    /\ mFrameTimes = <<SampleAt(1), SampleAt(2), SampleAt(3)>>
    /\ lastOp.est = "value"
    /\ lastOp.ret = [type |-> "Heuristic", fps |-> Rat(60, 1)]

====
